---------------------------- MODULE Spec2Model ----------------------------
(***************************************************************************)
(* Model of the dood-cli message pipeline (src/src/messages.rs) together   *)
(* with the tables of src/src/database.rs it reads and writes.             *)
(*                                                                         *)
(* Two accounts, alice and bob, each on a machine of its own with its own  *)
(* SQLite database, talk through the relay.  A command (dood send, dood    *)
(* fetch) runs in an operating-system process; several processes may run   *)
(* against one database at once, and every SQL statement is one atomic     *)
(* step.  The relay keeps every envelope it accepted and hands any of      *)
(* them out on a fetch: that covers reordering, duplication and loss.      *)
(*                                                                         *)
(* The primitives of the dood_encryption crate (X3DH, DoubleRatchet) are   *)
(* not part of this repository.  They are modelled symbolically after      *)
(* sections 3, 4.3 and 4.5 of the specification: a key is a number, a      *)
(* Diffie-Hellman output is the pair of the two keys, a root key is the    *)
(* sequence of the DH outputs mixed into the X3DH secret, a chain is       *)
(* named by the root key that started it, and a message key is a chain     *)
(* together with a counter.                                                *)
(***************************************************************************)
EXTENDS Integers, Sequences, FiniteSets, TLC

VARIABLES
    session,         \* machine -> set of rows [id, username]: table session
    account,         \* machine -> usernames of the rows of table account
    ratchet_states,  \* machine -> set of rows [username, state_data]
    messages,        \* machine -> sequence of rows of table messages
    user_devices,    \* machine -> set of rows [username, user_id, device_id]
    mailbox,         \* relay: recipient -> set of envelopes accepted for it
    pc,              \* process -> position in its command
    local,           \* process -> the command's local variables
    nextKey,         \* next key pair the random generator hands out
    budget,          \* commands (and disk faults) that may still happen
    faults,          \* relay failures that may still happen
    active,          \* processes that may run commands
    processed,       \* machine -> envelopes decrypted and returned Ok(true) for
    attempted,       \* machine -> envelopes process_received_message has returned for
    version,         \* machine -> number of writes to ratchet_states so far
    limit,           \* most envelopes the relay returns to one fetch in this run
    injected,        \* kinds of malformed envelope the relay hands out in this run
    directory,       \* the list the relay answers /account/search with in this run
    probe            \* inputs and results of the storage-key probe

vars == <<session, account, ratchet_states, messages, user_devices, mailbox, pc, local,
          nextKey, budget, faults, active, processed, attempted, version,
          limit, injected, directory, account, probe>>

-----------------------------------------------------------------------------
(* Bounds *)

MaxOps == 2        \* commands started in a concurrent run
MaxRaceOps == 3    \* commands started in a longer concurrent run
MaxSeqOps == 4     \* commands started in a run of one process at a time
MaxLongOps == 7    \* commands started in a long run of one process at a time
MaxFaults == 1     \* relay failures in a run
MaxBatch == 1      \* envelopes the relay returns to one fetch
MaxBatchOps == 3   \* commands started in a run with larger answers
MaxBigBatch == 2   \* envelopes the relay returns to one fetch in such a run
MaxSearchOps == 2  \* sends started in a run on an arbitrary search answer
MaxAnswer == 2     \* entries in the answer to a search in such a run
MaxSenderOps == 3  \* deliveries and fetches in a run of envelopes without sender
MaxAuthOps == 3    \* commands started in a run with account commands
MaxOwnerOps == 2   \* commands started in a concurrent run with account commands

-----------------------------------------------------------------------------
(* The parties *)

Users == {"alice", "bob"}
Names == Users \cup {"carol"}          \* carol has no account on the relay
Procs == {"p1", "p2"}
Payloads == {"hi", "hello"}
Garbage == "garbage"                   \* what a failed decryption may yield

MachineOf(u) == u                      \* each account lives on its own machine
Machines == {MachineOf(u) : u \in Users}

UserIndex(u) ==
    IF u = "alice" THEN 0 ELSE IF u = "bob" THEN 1 ELSE IF u = "carol" THEN 2 ELSE 3
IdentityKey(u) == 3 * UserIndex(u) + 1
SignedPreKey(u) == 3 * UserIndex(u) + 2
OneTimePreKey(u) == 3 * UserIndex(u) + 3
FirstFreshKey == 3 * (Cardinality(Names) + 1) + 1

UserId(u) == UserIndex(u) + 1
DeviceId(u) == UserIndex(u) + 1

-----------------------------------------------------------------------------
(* Optional values: <<>> is None / Err, <<x>> is Some(x) / Ok(x) *)

None == <<>>
Some(x) == <<x>>
IsSome(o) == o # <<>>
Get(o) == o[1]

-----------------------------------------------------------------------------
(* The primitive provider (crate dood_encryption), modelled symbolically    *)

AssociatedData == 0                    \* the 32 bytes in front of every header

DH(priv, pub) == {priv, pub}

X3DHSecret(ikA, ekA, ikB, spkB, opkB) == <<ikA, ekA, ikB, spkB, opkB>>

OptKey(o) == IF IsSome(o) THEN Get(o) ELSE 0

\* X3DH::export as the relay serves it: the public bundle of an account
KeyBundle(u) ==
    [identity_key |-> IdentityKey(u),
     signed_pre_key |-> SignedPreKey(u),
     one_time_pre_key |-> Some(OneTimePreKey(u))]

\* X3DH::initiate_key_agreement, ek being the key pair it generates
initiate_key_agreement(me, bundle, ek) ==
    [rk |-> X3DHSecret(IdentityKey(me), ek, bundle.identity_key,
                       bundle.signed_pre_key, OptKey(bundle.one_time_pre_key)),
     alice_dhs |-> ek,
     bob_public_key |-> bundle.signed_pre_key,
     alice_identity_pub |-> IdentityKey(me),
     bob_one_time_pre_key |-> bundle.one_time_pre_key]

\* X3DH::respond_to_key_agreement with the private keys of account me
respond_to_key_agreement(me, alice_identity_pub, alice_dh_public, one_time_pre_key) ==
    X3DHSecret(alice_identity_pub, alice_dh_public, IdentityKey(me),
               SignedPreKey(me), OptKey(one_time_pre_key))

\* KDF_RK: the new root key, which also names the chain it starts
KdfRoot(rk, dh) == Append(rk, dh)

\* KDF_CK: the message key of counter n of a chain
MessageKey(ck, n) == <<ck, n>>

\* DoubleRatchet::new_sender
new_sender(rk, alice_dhs, bob_public_key) ==
    [rk |-> KdfRoot(<<rk>>, DH(alice_dhs, bob_public_key)),
     dhs |-> alice_dhs,
     dh_public_r |-> bob_public_key,
     cks |-> KdfRoot(<<rk>>, DH(alice_dhs, bob_public_key)),
     ckr |-> None,
     ns |-> 0, nr |-> 0, pn |-> 0,
     mk_skipped |-> {}]

\* DoubleRatchet::new_receiver: a receiving chain and no sending chain yet
new_receiver(shared_key, bob_dh_keypair, alice_dh_public) ==
    [rk |-> KdfRoot(<<shared_key>>, DH(bob_dh_keypair, alice_dh_public)),
     dhs |-> bob_dh_keypair,
     dh_public_r |-> alice_dh_public,
     cks |-> None,
     ckr |-> KdfRoot(<<shared_key>>, DH(bob_dh_keypair, alice_dh_public)),
     ns |-> 0, nr |-> 0, pn |-> 0,
     mk_skipped |-> {}]

\* Does ratchet_encrypt have to start a sending chain (and draw a key pair)?
NeedsSendingChain(st) == st.cks = None

\* DoubleRatchet::ratchet_encrypt; fresh is the key pair drawn when a sending
\* chain has to be started.  Returns the advanced state, the header and the
\* ciphertext.
ratchet_encrypt(st, plaintext, fresh) ==
    LET s1 == IF NeedsSendingChain(st)
              THEN [st EXCEPT !.dhs = fresh,
                              !.rk = KdfRoot(st.rk, DH(fresh, st.dh_public_r)),
                              !.cks = KdfRoot(st.rk, DH(fresh, st.dh_public_r)),
                              !.pn = st.ns,
                              !.ns = 0]
              ELSE st
    IN [state |-> [s1 EXCEPT !.ns = s1.ns + 1],
        header |-> [ad |-> AssociatedData, public_key |-> s1.dhs,
                    n |-> s1.ns, pn |-> s1.pn],
        cipher_text |-> [mk |-> MessageKey(s1.cks, s1.ns),
                         ad |-> AssociatedData,
                         pt |-> plaintext]]

\* Derive and cache the keys of the receiving chain up to (excluding) until
SkipMessageKeys(st, until) ==
    IF st.ckr = None \/ until <= st.nr THEN st
    ELSE [st EXCEPT
            !.mk_skipped = @ \cup
                {[public_key |-> st.dh_public_r, n |-> i,
                  mk |-> MessageKey(st.ckr, i)] : i \in st.nr .. (until - 1)},
            !.nr = until]

\* The Diffie-Hellman ratchet step on a new remote key
DHRatchet(st, remote_pub) ==
    [st EXCEPT !.dh_public_r = remote_pub,
               !.rk = KdfRoot(st.rk, DH(st.dhs, remote_pub)),
               !.ckr = KdfRoot(st.rk, DH(st.dhs, remote_pub)),
               !.cks = None,
               !.nr = 0]

SkippedFor(st, header) ==
    {s \in st.mk_skipped : s.public_key = header.public_key /\ s.n = header.n}

\* The AEAD: the key and the associated data must be those of the encryption
AeadOpens(cipher_text, mk, ad) == cipher_text.mk = mk /\ cipher_text.ad = ad

\* DoubleRatchet::ratchet_decrypt: the state it leaves, whether the tag
\* verified, the plaintext, and the message key it used.
ratchet_decrypt(st, header, cipher_text, ad) ==
    IF SkippedFor(st, header) # {}
    THEN LET s == CHOOSE s \in SkippedFor(st, header) : TRUE
         IN [state |-> [st EXCEPT !.mk_skipped = @ \ {s}],
             ok |-> AeadOpens(cipher_text, s.mk, ad),
             pt |-> cipher_text.pt,
             mk |-> s.mk]
    ELSE LET s1 == IF header.public_key # st.dh_public_r
                   THEN DHRatchet(SkipMessageKeys(st, header.pn), header.public_key)
                   ELSE st
             s2 == SkipMessageKeys(s1, header.n)
             mk == MessageKey(s2.ckr, s2.nr)
         IN [state |-> [s2 EXCEPT !.nr = s2.nr + 1],
             ok |-> AeadOpens(cipher_text, mk, ad),
             pt |-> cipher_text.pt,
             mk |-> mk]

\* What ratchet_decrypt, which returns a String and no Result, can do when the
\* tag does not verify: abort the process, or return with some text.
DecryptFailureOutcomes == {"panic", "garbage"}

-----------------------------------------------------------------------------
(* The database (src/src/database.rs) and the session directory             *)

\* The row of table session for username; the column logged_in_at is left out
SessionRow(username) == [id |-> 1, username |-> username]

\* auth::get_current_username: SELECT username FROM session WHERE id = 1
get_current_username(m) ==
    IF \E r \in session[m] : r.id = 1
    THEN Some((CHOOSE r \in session[m] : r.id = 1).username)
    ELSE None

\* auth::is_logged_in: SELECT COUNT(*) FROM session WHERE id = 1
is_logged_in(m) == \E r \in session[m] : r.id = 1

\* The storage key "current_user:conversation_partner"
StorageKey(current_user, username) == current_user \o ":" \o username

\* A plain INSERT on a table without the UNIQUE constraint
InsertKeepingOld(table, key, state) ==
    table \cup {[username |-> key, state_data |-> state]}

\* INSERT OR REPLACE on a table whose column username is UNIQUE
InsertOrReplace(table, key, state) ==
    {r \in table : r.username # key} \cup {[username |-> key, state_data |-> state]}

\* SELECT state_data FROM ratchet_states WHERE username = key
SelectState(table, key) ==
    IF \E r \in table : r.username = key
    THEN Some((CHOOSE r \in table : r.username = key).state_data)
    ELSE None

\* A state_data text that is no JSON: what a damaged row holds
CorruptText ==
    [rk |-> <<>>, dhs |-> 0, dh_public_r |-> 0, cks |-> None, ckr |-> None,
     ns |-> 0, nr |-> 0, pn |-> 0, mk_skipped |-> {}]

\* load_ratchet_state, line 438: serde_json::from_str(&state_str)?
Parses(state_data) == state_data # CorruptText

\* messages::load_ratchet_state: Err when nobody is logged in, no row is found
\* or the text of the row does not parse
load_ratchet_state(m, username) ==
    IF IsSome(get_current_username(m))
    THEN LET found == SelectState(ratchet_states[m],
                          StorageKey(Get(get_current_username(m)), username))
         IN IF IsSome(found) /\ Parses(Get(found)) THEN found ELSE None
    ELSE None

\* save_ratchet_state with the two halves of the key swapped
save_ratchet_state_swapped(m, username, state) ==
    InsertOrReplace(ratchet_states[m],
                    StorageKey(username, Get(get_current_username(m))), state)

\* messages::save_ratchet_state: the table after the write
save_ratchet_state(m, username, state) ==
    InsertOrReplace(ratchet_states[m],
                    StorageKey(Get(get_current_username(m)), username), state)

\* database::save_message: the row appended to table messages
MessageRow(conversation_with, sender, recipient, content, is_outgoing) ==
    [conversation_with |-> conversation_with, sender |-> sender,
     recipient |-> recipient, content |-> content, is_outgoing |-> is_outgoing]

-----------------------------------------------------------------------------
(* The relay *)

\* One entry of the answer to /account/search
DirectoryEntry(u) ==
    [username |-> u, id |-> Some(UserId(u)), Devices |-> <<Some(DeviceId(u))>>]

\* /account/search as a relay that knows the accounts answers it
Directory == <<DirectoryEntry("alice"), DirectoryEntry("bob")>>

\* users.iter().find(..), line 142-145: the first entry with this username
RECURSIVE FindUser(_, _)
FindUser(users, username) ==
    IF users = <<>> THEN None
    ELSE IF Head(users).username = username THEN Some(Head(users))
    ELSE FindUser(Tail(users), username)

\* search_user that takes the last device of the entry
search_user_last_device(users, username) ==
    LET user == FindUser(users, username)
    IN IF user = None THEN None
       ELSE IF Get(user).id = None \/ Get(user).Devices = <<>> THEN None
       ELSE LET devices == Get(user).Devices
            IN IF devices[Len(devices)] = None THEN None
               ELSE Some(<<Get(Get(user).id), Get(devices[Len(devices)])>>)

\* messages::search_user on the answer users of the relay:
\* Some(<<user_id, device_id>>), or None for every way it fails
search_user(users, username) ==
    LET user == FindUser(users, username)
    IN IF user = None THEN None                       \* lines 138-145
       ELSE IF Get(user).id = None THEN None          \* line 147
       ELSE IF Get(user).Devices = <<>> THEN None     \* lines 149-152
       ELSE IF Get(user).Devices[1] = None THEN None  \* line 154
       ELSE Some(<<Get(Get(user).id), Get(Get(user).Devices[1])>>)

\* What a fetch may return: any envelopes the relay ever accepted, in any order
RECURSIVE SeqsUpTo(_, _)
SeqsUpTo(S, k) ==
    IF k = 0 THEN {<<>>}
    ELSE SeqsUpTo(S, k - 1) \cup
         {Append(q, e) : q \in {q \in SeqsUpTo(S, k - 1) : Len(q) = k - 1}, e \in S}

-----------------------------------------------------------------------------
(* Envelopes *)

\* The header sent as ratchet_encrypt made it, the handshake left out
HeaderDroppingX3dh(header, x3dh_metadata) ==
    [ad |-> header.ad, public_key |-> header.public_key, n |-> header.n,
     pn |-> header.pn, x3dh_init |-> None]

\* send_message, lines 50-66: the header with the handshake merged in
HeaderWithX3dh(header, x3dh_metadata) ==
    [ad |-> header.ad, public_key |-> header.public_key, n |-> header.n,
     pn |-> header.pn, x3dh_init |-> x3dh_metadata]

\* The metadata without the one-time pre-key that was used
X3dhMetadataWithoutPreKey(x3dh_result) ==
    [sender_identity |-> x3dh_result.alice_identity_pub,
     one_time_pre_key |-> None]

\* send_message, lines 30-33
X3dhMetadata(x3dh_result) ==
    [sender_identity |-> x3dh_result.alice_identity_pub,
     one_time_pre_key |-> x3dh_result.bob_one_time_pre_key]

\* The envelope as the recipient fetches it: the relay adds the sender's name
Envelope(sender, header, cipher_text) ==
    [username |-> sender, header |-> header, ciphertext |-> cipher_text,
     wire |-> "ok"]

\* How the JSON of an envelope can fail to decode in lines 246-257: a field is
\* missing, a field is no base64, the decoded header has fewer than 32 bytes,
\* the bytes after the first 32 are no JSON
WireFaults == {"missing_field", "bad_base64", "short_header", "bad_json"}

\* An envelope of the relay that does not decode
Malformed(kind) ==
    [username |-> "carol",
     header |-> [ad |-> AssociatedData, public_key |-> 0, n |-> 0, pn |-> 0,
                 x3dh_init |-> None],
     ciphertext |-> [mk |-> <<>>, ad |-> AssociatedData, pt |-> ""],
     wire |-> kind]

\* process_received_message, lines 246-257: Ok, Err or a panic.  The slice
\* &full_header[0..32] of line 253 panics on a header of fewer than 32 bytes.
Decode(msg) ==
    IF msg.wire \in {"ok", "no_username"} THEN "ok"
    ELSE IF msg.wire = "short_header" THEN "panic"
    ELSE "error"

\* The name process_received_message gives an envelope without username
UnknownSender == "unknown"

\* An envelope the relay hands out without the field username.  The record
\* keeps the name of the account that sent it.
Nameless(e) == [e EXCEPT !.wire = "no_username"]

\* What the relay can do to its answer: an envelope that does not decode, or
\* an envelope without the sender's name
RelayFaults == WireFaults \cup {"no_username"}

\* line 248: msg["username"].as_str().unwrap_or("unknown")
SenderOf(msg) ==
    IF msg.wire = "no_username" THEN UnknownSender ELSE msg.username

\* What a fetch may return: envelopes the relay ever accepted, with or
\* without the sender's name, and envelopes that do not decode, in any order
Batches(u) ==
    SeqsUpTo(mailbox[u]
               \cup {Malformed(k) : k \in injected \cap WireFaults}
               \cup {Nameless(e) : e \in {e \in mailbox[u] : "no_username" \in injected}},
             limit)

\* is_old_message with n <= nr for n < nr
is_old_message_inclusive(ratchet_state, header) ==
    \/ /\ ratchet_state.dh_public_r = header.public_key
       /\ header.n <= ratchet_state.nr
    \/ \E skipped \in ratchet_state.mk_skipped :
          skipped.public_key = header.public_key /\ skipped.n = header.n

\* is_old_message without the test of the counter against nr
is_old_message_cache_only(ratchet_state, header) ==
    \E skipped \in ratchet_state.mk_skipped :
        skipped.public_key = header.public_key /\ skipped.n = header.n

\* messages::is_old_message
is_old_message(ratchet_state, header) ==
    \/ /\ ratchet_state.dh_public_r = header.public_key
       /\ header.n < ratchet_state.nr
    \/ \E skipped \in ratchet_state.mk_skipped :
          skipped.public_key = header.public_key /\ skipped.n = header.n

-----------------------------------------------------------------------------
(* Processes *)

LocalIdle ==
    [op |-> "none", m |-> "", owner |-> "", peer |-> "", msg |-> "",
     first |-> FALSE, st |-> None, env |-> None, batch |-> <<>>,
     new_count |-> 0, result |-> "", plain |-> "",
     \* what the properties below need to remember of the run of the command
     dup |-> FALSE, seen |-> FALSE, pre |-> {}, ver |-> 0, mk |-> <<>>,
     established |-> FALSE, tag_ok |-> TRUE, hist |-> 0,
     \* of a fetch: the table and the length of the history when it began, and
     \* whether every envelope so far was dropped as stale
     fetch_pre |-> {}, fetch_hist |-> 0, only_stale |-> FALSE,
     \* table session when the command began, and of a login whether the
     \* account was there
     session_pre |-> {}, known |-> FALSE,
     \* the current user at the last load of the record and at its store
     loaded_as |-> None, stored_as |-> None]

\* The storage-key probe is not running
NoProbe ==
    [stage |-> "off", m |-> "", a |-> <<"", "">>, b |-> <<"", "">>, got |-> None]

\* Empty databases and an empty relay; ops commands may be started, by the
\* processes of procs, and a fetch is answered with at most cap envelopes
InitRest(ops, procs, cap, kinds) ==
    /\ ratchet_states = [m \in Machines |-> {}]
    /\ messages = [m \in Machines |-> <<>>]
    /\ user_devices = [m \in Machines |-> {}]
    /\ mailbox = [u \in Names |-> {}]
    /\ pc = [p \in Procs |-> "idle"]
    /\ local = [p \in Procs |-> LocalIdle]
    /\ nextKey = FirstFreshKey
    /\ budget = ops
    /\ faults = MaxFaults
    /\ active = procs
    /\ processed = [m \in Machines |-> {}]
    /\ attempted = [m \in Machines |-> {}]
    /\ version = [m \in Machines |-> [n \in Names \cup {UnknownSender} |-> 0]]
    /\ limit = cap
    /\ injected = kinds

\* Everybody registered and logged in, nothing sent yet
InitWith(ops, procs, cap, kinds) ==
    /\ session = [m \in Machines |-> {SessionRow(m)}]
    /\ account = [m \in Machines |-> {m}]
    /\ probe = NoProbe
    /\ directory = Directory
    /\ InitRest(ops, procs, cap, kinds)

\* Commands of two processes at once
Init == InitWith(MaxOps, Procs, MaxBatch, {})

InitRace == InitWith(MaxRaceOps, Procs, MaxBatch, {})

\* One process, so one command at a time
InitSeq == InitWith(MaxSeqOps, {"p1"}, MaxBigBatch, {})

InitLong == InitWith(MaxLongOps, {"p1"}, MaxBatch, {})

\* One process, and fetches that are answered with several envelopes
InitBatch == InitWith(MaxBatchOps, {"p1"}, MaxBigBatch, RelayFaults)

Goto(p, where, loc) ==
    /\ pc' = [pc EXCEPT ![p] = where]
    /\ local' = [local EXCEPT ![p] = loc]

\* The command ends with an error (anyhow::bail!, or ? on an Err)
Fail(p, where) == Goto(p, where, [local[p] EXCEPT !.result = "error"])

-----------------------------------------------------------------------------
(* dood send: main.rs 117-120, messages::send_message *)

\* lines 14-18: the account of the current session, then search_user, which
\* caches the mapping it found
StartSend(p, m, to, msg) ==
    /\ pc[p] = "idle" /\ p \in active /\ budget > 0
    /\ is_logged_in(m)
    /\ to # Get(get_current_username(m)) \* the recipients tried are the other names
    /\ budget' = budget - 1
    /\ LET me == Get(get_current_username(m))
           loc0 == [LocalIdle EXCEPT !.op = "send", !.m = m, !.owner = me,
                                     !.peer = to, !.msg = msg,
                                     !.session_pre = session[m]]
           loc == [loc0 EXCEPT !.hist = Len(messages[m])]
       IN \/ /\ faults > 0                 \* the relay does not answer
             /\ faults' = faults - 1
             /\ Goto(p, "send_done", [loc EXCEPT !.result = "error"])
             /\ UNCHANGED user_devices
          \/ /\ search_user(directory, to) = None
             /\ Goto(p, "send_done", [loc EXCEPT !.result = "error"])
             /\ UNCHANGED <<user_devices, faults>>
          \/ /\ IsSome(search_user(directory, to))
             /\ user_devices' = [user_devices EXCEPT ![m] =
                    {r \in @ : r.username # to} \cup
                    {[username |-> to, user_id |-> Get(search_user(directory, to))[1],
                      device_id |-> Get(search_user(directory, to))[2]]}]
             /\ Goto(p, "check_first", loc)
             /\ UNCHANGED faults
    /\ UNCHANGED <<session, ratchet_states, messages, mailbox, nextKey, active, limit, injected, directory, account, probe,
                   processed, attempted, version>>

\* line 20: is_first_message = load_ratchet_state(recipient).is_err()
SendCheckFirst(p) ==
    /\ pc[p] = "check_first"
    /\ LET l == local[p]
       IN Goto(p, "prepare",
               [l EXCEPT !.first = ~IsSome(load_ratchet_state(l.m, l.peer)),
                         !.loaded_as = get_current_username(l.m),
                         !.ver = version[l.m][l.peer],
                         !.pre = ratchet_states[l.m]])
    /\ UNCHANGED <<session, ratchet_states, messages, user_devices, mailbox,
                   nextKey, budget, faults, active, limit, injected, directory, account, probe, processed, attempted, version>>

\* lines 46-69 on the state st0 and the handshake metadata of lines 22-44
Encrypted(l, st0, x3dh_metadata, fresh) ==
    LET encrypt_result == ratchet_encrypt(st0, l.msg, fresh)
    IN [l EXCEPT !.st = Some(encrypt_result.state),
                 !.env = Some(Envelope(l.owner,
                              HeaderWithX3dh(encrypt_result.header, x3dh_metadata),
                              encrypt_result.cipher_text))]

\* lines 22-46: a new session from the peer's key bundle, or the stored one;
\* then ratchet_encrypt
SendPrepare(p) ==
    /\ pc[p] = "prepare"
    /\ LET l == local[p]
       IN IF l.first
          THEN \/ /\ faults > 0            \* fetch_key_bundle_by_id fails
                  /\ faults' = faults - 1
                  /\ Fail(p, "send_done")
                  /\ UNCHANGED nextKey
               \/ LET x3dh_result ==
                          initiate_key_agreement(l.owner, KeyBundle(l.peer), nextKey)
                      ratchet == new_sender(x3dh_result.rk, x3dh_result.alice_dhs,
                                            x3dh_result.bob_public_key)
                  IN /\ Goto(p, "save",
                             Encrypted(l, ratchet, Some(X3dhMetadata(x3dh_result)),
                                       nextKey + 1))
                     /\ nextKey' = nextKey + 1
                     /\ UNCHANGED faults
          ELSE LET loaded == load_ratchet_state(l.m, l.peer)
               IN IF IsSome(loaded)
                  THEN /\ Goto(p, "save",
                               [Encrypted(l, Get(loaded), None, nextKey)
                                  EXCEPT !.ver = version[l.m][l.peer],
                                         !.loaded_as = get_current_username(l.m)])
                       /\ nextKey' = IF NeedsSendingChain(Get(loaded))
                                     THEN nextKey + 1 ELSE nextKey
                       /\ UNCHANGED faults
                  ELSE /\ Fail(p, "send_done")
                       /\ UNCHANGED <<nextKey, faults>>
    /\ UNCHANGED <<session, ratchet_states, messages, user_devices, mailbox,
                   budget, active, limit, injected, directory, account, probe, processed, attempted, version>>

\* send_message with the write of line 48 left out: the POST comes next
SendSaveSkipped(p) ==
    /\ pc[p] = "save"
    /\ Goto(p, "transmit", local[p])
    /\ UNCHANGED <<session, ratchet_states, messages, user_devices, mailbox,
                   nextKey, budget, faults, active, limit, injected, directory, account, probe,
                   processed, attempted, version>>

\* line 48: save_ratchet_state(recipient, &ratchet_state)
SendSave(p) ==
    /\ pc[p] = "save"
    /\ LET l == local[p]
       IN IF is_logged_in(l.m)
          THEN /\ ratchet_states' = [ratchet_states EXCEPT ![l.m] =
                                        save_ratchet_state(l.m, l.peer, Get(l.st))]
               /\ version' = [version EXCEPT ![l.m][l.peer] = @ + 1]
               /\ Goto(p, "transmit", [l EXCEPT !.stored_as = get_current_username(l.m)])
          ELSE /\ Fail(p, "send_done")
               /\ UNCHANGED <<ratchet_states, version>>
    /\ UNCHANGED <<session, messages, user_devices, mailbox, nextKey, budget,
                   faults, active, limit, injected, directory, account, probe, processed, attempted>>

\* The POST of lines 87-99 with its failure ignored: save_message comes next
SendTransmitUnchecked(p) ==
    /\ pc[p] = "transmit"
    /\ LET l == local[p]
       IN \/ /\ mailbox' = [mailbox EXCEPT ![l.peer] = @ \cup {Get(l.env)}]
             /\ Goto(p, "history", l)
             /\ UNCHANGED faults
          \/ /\ faults > 0
             /\ faults' = faults - 1
             /\ Goto(p, "history", l)
             /\ UNCHANGED mailbox
    /\ UNCHANGED <<session, ratchet_states, messages, user_devices, nextKey,
                   budget, active, limit, injected, directory, account, probe, processed, attempted,
                   version>>

\* lines 87-99: POST /message/send
SendTransmit(p) ==
    /\ pc[p] = "transmit"
    /\ LET l == local[p]
       IN \/ /\ mailbox' = [mailbox EXCEPT ![l.peer] = @ \cup {Get(l.env)}]
             /\ Goto(p, "history", l)
             /\ UNCHANGED faults
          \/ /\ faults > 0                 \* no answer, or a status that is no success
             /\ faults' = faults - 1
             /\ Fail(p, "send_done")
             /\ UNCHANGED mailbox
    /\ UNCHANGED <<session, ratchet_states, messages, user_devices, nextKey,
                   budget, active, limit, injected, directory, account, probe, processed, attempted, version>>

\* lines 101-115: the outgoing history row
SendHistory(p) ==
    /\ pc[p] = "history"
    /\ LET l == local[p]
       IN /\ messages' = [messages EXCEPT ![l.m] =
                 Append(@, MessageRow(l.peer, l.owner, l.peer, l.msg, TRUE))]
          /\ Goto(p, "send_done", [l EXCEPT !.result = "ok"])
    /\ UNCHANGED <<session, ratchet_states, user_devices, mailbox, nextKey,
                   budget, faults, active, limit, injected, directory, account, probe, processed, attempted, version>>

-----------------------------------------------------------------------------
(* dood fetch: main.rs 122-125, messages::fetch_messages *)

\* lines 189-218: POST /message/fetch; an empty answer ends the command
StartFetch(p, m) ==
    /\ pc[p] = "idle" /\ p \in active /\ budget > 0
    /\ is_logged_in(m)
    /\ budget' = budget - 1
    /\ \E batch \in Batches(Get(get_current_username(m))) :
         LET loc == [LocalIdle EXCEPT !.op = "fetch", !.m = m,
                                     !.owner = Get(get_current_username(m)),
                                     !.batch = batch,
                                     !.fetch_pre = ratchet_states[m],
                                     !.fetch_hist = Len(messages[m]),
                                     !.only_stale = TRUE,
                                     !.session_pre = session[m]]
             \* an answer with an envelope that does not decode, or that
             \* lacks the sender, is a failure of the relay
             bad == \E i \in 1 .. Len(batch) : batch[i].wire # "ok"
         IN /\ bad => faults > 0
            /\ faults' = IF bad THEN faults - 1 ELSE faults
            /\ IF batch = <<>>
               THEN Goto(p, "fetch_done", [loc EXCEPT !.result = "ok"])
               ELSE Goto(p, "guard", loc)
    /\ UNCHANGED <<session, ratchet_states, messages, user_devices, mailbox,
                   nextKey, active, limit, injected, directory, account, probe, processed, attempted, version>>

\* lines 199-210: the relay does not answer, or answers with an error status
FetchFails(p, m) ==
    /\ pc[p] = "idle" /\ p \in active /\ budget > 0
    /\ is_logged_in(m)
    /\ faults > 0
    /\ budget' = budget - 1
    /\ faults' = faults - 1
    /\ Goto(p, "fetch_done",
            [LocalIdle EXCEPT !.op = "fetch", !.m = m,
                              !.owner = Get(get_current_username(m)),
                              !.session_pre = session[m],
                              !.result = "error"])
    /\ UNCHANGED <<session, ratchet_states, messages, user_devices, mailbox,
                   nextKey, active, limit, injected, directory, account, probe, processed, attempted, version>>

\* process_received_message, lines 246-266, on the first envelope left of the
\* batch: decode it (an envelope that does not decode ends the call with Err,
\* or the process with a panic), and drop it when is_old_message says so
RecvGuard(p) ==
    /\ pc[p] = "guard"
    /\ LET l == local[p]
           msg == Head(l.batch)
           sender == SenderOf(msg)
           loaded == load_ratchet_state(l.m, sender)
           loc == [l EXCEPT !.peer = sender, !.env = Some(msg),
                            !.st = None, !.result = "", !.plain = "",
                            !.mk = <<>>, !.established = FALSE, !.tag_ok = TRUE,
                            !.dup = msg \in processed[l.m],
                            !.seen = msg \in attempted[l.m],
                            !.pre = ratchet_states[l.m],
                            !.hist = Len(messages[l.m])]
       IN IF Decode(msg) = "error"
          THEN /\ Goto(p, "recv_done", [loc EXCEPT !.result = "error", !.only_stale = FALSE])
               /\ UNCHANGED attempted
          ELSE IF Decode(msg) = "panic"
          THEN /\ Goto(p, "panicked", [loc EXCEPT !.result = "panic", !.only_stale = FALSE])
               /\ UNCHANGED attempted
          ELSE IF IsSome(loaded) /\ is_old_message(Get(loaded), msg.header)
          THEN /\ Goto(p, "recv_done", [loc EXCEPT !.result = "stale"])
               /\ attempted' = [attempted EXCEPT ![l.m] = @ \cup {msg}]
          ELSE /\ Goto(p, "init", [loc EXCEPT !.only_stale = FALSE])
               /\ UNCHANGED attempted
    /\ UNCHANGED <<session, ratchet_states, messages, user_devices, mailbox,
                   nextKey, budget, faults, active, limit, injected, directory, account, probe, processed, version>>

\* get_or_initialize_receiver_ratchet that, without a handshake in the header,
\* sets the session up from the sender's published identity key
get_or_initialize_without_handshake(m, sender, header) ==
    IF IsSome(load_ratchet_state(m, sender))
    THEN load_ratchet_state(m, sender)
    ELSE IF ~is_logged_in(m)
    THEN None
    ELSE LET me == Get(get_current_username(m))
             identity == IF header.x3dh_init = None THEN IdentityKey(sender)
                         ELSE Get(header.x3dh_init).sender_identity
             pre_key == IF header.x3dh_init = None THEN None
                        ELSE Get(header.x3dh_init).one_time_pre_key
             shared_key == respond_to_key_agreement(me, identity,
                               header.public_key, pre_key)
         IN Some(new_receiver(shared_key, SignedPreKey(me), header.public_key))

\* get_or_initialize_receiver_ratchet that sets the session up anew whenever
\* the header carries a handshake
get_or_initialize_from_handshake(m, sender, header) ==
    IF IsSome(load_ratchet_state(m, sender)) /\ header.x3dh_init = None
    THEN load_ratchet_state(m, sender)
    ELSE IF ~is_logged_in(m) \/ header.x3dh_init = None
    THEN None
    ELSE LET me == Get(get_current_username(m))
             x3dh_init == Get(header.x3dh_init)
             shared_key == respond_to_key_agreement(me, x3dh_init.sender_identity,
                               header.public_key, x3dh_init.one_time_pre_key)
         IN Some(new_receiver(shared_key, SignedPreKey(me), header.public_key))

\* messages::get_or_initialize_receiver_ratchet: the stored state, or a new
\* receiver session from the handshake in the header; None when there is neither
get_or_initialize_receiver_ratchet(m, sender, header) ==
    IF IsSome(load_ratchet_state(m, sender))
    THEN load_ratchet_state(m, sender)
    ELSE IF ~is_logged_in(m) \/ header.x3dh_init = None
    THEN None
    ELSE LET me == Get(get_current_username(m))
             x3dh_init == Get(header.x3dh_init)
             shared_key == respond_to_key_agreement(me, x3dh_init.sender_identity,
                               header.public_key, x3dh_init.one_time_pre_key)
         IN Some(new_receiver(shared_key, SignedPreKey(me), header.public_key))

\* lines 268-271: the ratchet state to use, then ratchet_decrypt
RecvInit(p) ==
    /\ pc[p] = "init"
    /\ LET l == local[p]
           msg == Get(l.env)
           ratchet_state == get_or_initialize_receiver_ratchet(l.m, l.peer, msg.header)
       IN IF ratchet_state = None
          THEN /\ Fail(p, "recv_done")
               /\ attempted' = [attempted EXCEPT ![l.m] = @ \cup {msg}]
          ELSE LET d == ratchet_decrypt(Get(ratchet_state), msg.header,
                                        msg.ciphertext, msg.header.ad)
                   loc == [l EXCEPT !.ver = version[l.m][l.peer], !.mk = d.mk,
                                    !.tag_ok = d.ok,
                                    !.loaded_as = get_current_username(l.m),
                                    !.established =
                                        ~IsSome(load_ratchet_state(l.m, l.peer))]
               IN IF d.ok
                  THEN /\ Goto(p, "recv_save",
                               [loc EXCEPT !.st = Some(d.state), !.plain = d.pt])
                       /\ UNCHANGED attempted
                  ELSE \E outcome \in DecryptFailureOutcomes :
                         IF outcome = "panic"
                         THEN /\ Goto(p, "panicked", [loc EXCEPT !.result = "panic"])
                              /\ attempted' = [attempted EXCEPT ![l.m] = @ \cup {msg}]
                         ELSE /\ Goto(p, "recv_save",
                                      [loc EXCEPT !.st = Some(d.state),
                                                  !.plain = Garbage])
                              /\ UNCHANGED attempted
    /\ UNCHANGED <<session, ratchet_states, messages, user_devices, mailbox,
                   nextKey, budget, faults, active, limit, injected, directory, account, probe, processed, version>>

\* process_received_message with the write of line 273 left out: save_message
\* comes next
RecvSaveSkipped(p) ==
    /\ pc[p] = "recv_save"
    /\ Goto(p, "recv_history", local[p])
    /\ UNCHANGED <<session, ratchet_states, messages, user_devices, mailbox,
                   nextKey, budget, faults, active, limit, injected, directory, account, probe,
                   processed, attempted, version>>

\* line 273: save_ratchet_state(sender, &ratchet_state)
RecvSave(p) ==
    /\ pc[p] = "recv_save"
    /\ LET l == local[p]
       IN IF is_logged_in(l.m)
          THEN /\ ratchet_states' = [ratchet_states EXCEPT ![l.m] =
                                        save_ratchet_state(l.m, l.peer, Get(l.st))]
               /\ version' = [version EXCEPT ![l.m][l.peer] = @ + 1]
               /\ Goto(p, "recv_history",
                       [l EXCEPT !.stored_as = get_current_username(l.m)])
               /\ UNCHANGED attempted
          ELSE /\ Fail(p, "recv_done")
               /\ attempted' = [attempted EXCEPT ![l.m] = @ \cup {Get(l.env)}]
               /\ UNCHANGED <<ratchet_states, version>>
    /\ UNCHANGED <<session, messages, user_devices, mailbox, nextKey, budget,
                   faults, active, limit, injected, directory, account, probe, processed>>

\* lines 275-280: the incoming history row, the text on the screen, Ok(true)
RecvHistory(p) ==
    /\ pc[p] = "recv_history"
    /\ LET l == local[p]
       IN /\ messages' = [messages EXCEPT ![l.m] =
                 Append(@, MessageRow(l.peer, l.peer, l.owner, l.plain, FALSE))]
          /\ processed' = [processed EXCEPT ![l.m] =
                 IF l.tag_ok THEN @ \cup {Get(l.env)} ELSE @]
          /\ attempted' = [attempted EXCEPT ![l.m] = @ \cup {Get(l.env)}]
          /\ Goto(p, "recv_done",
                  [l EXCEPT !.result = "new", !.new_count = @ + 1])
    /\ UNCHANGED <<session, ratchet_states, user_devices, mailbox, nextKey,
                   budget, faults, active, limit, injected, directory, account, probe, version>>

\* The loop of fetch_messages counting every Ok, not only Ok(true)
RecvNextCountingAll(p) ==
    /\ pc[p] = "recv_done"
    /\ LET l == local[p]
       IN IF Len(l.batch) > 1
          THEN Goto(p, "guard",
                    [l EXCEPT !.batch = Tail(@),
                              !.new_count = IF l.result = "stale" THEN @ + 1 ELSE @])
          ELSE Goto(p, "idle", LocalIdle)
    /\ UNCHANGED <<session, ratchet_states, messages, user_devices, mailbox,
                   nextKey, budget, faults, active, limit, injected, directory, account,
                   probe, processed, attempted, version>>

\* fetch_messages, lines 222-242: on to the next envelope, or the end
RecvNext(p) ==
    /\ pc[p] = "recv_done"
    /\ LET l == local[p]
       IN IF Len(l.batch) > 1
          THEN Goto(p, "guard", [l EXCEPT !.batch = Tail(@)])
          ELSE Goto(p, "idle", LocalIdle)
    /\ UNCHANGED <<session, ratchet_states, messages, user_devices, mailbox,
                   nextKey, budget, faults, active, limit, injected, directory, account, probe, processed, attempted, version>>

\* The process of a command exits: it returned, or it panicked
Finish(p) ==
    /\ pc[p] \in {"send_done", "fetch_done", "auth_done", "panicked"}
    /\ Goto(p, "idle", LocalIdle)
    /\ UNCHANGED <<session, ratchet_states, messages, user_devices, mailbox,
                   nextKey, budget, faults, active, limit, injected, directory, account, probe, processed, attempted, version>>

\* Between two commands the text of a stored row is damaged (a disk fault, an
\* editor): the row stays, its state_data no longer parses.  The event counts
\* as one of the commands of the run.
Corrupt(m, peer) ==
    /\ \A p \in Procs : pc[p] = "idle"
    /\ budget > 0 /\ faults > 0
    /\ is_logged_in(m)
    /\ IsSome(load_ratchet_state(m, peer))
    /\ faults' = faults - 1
    /\ budget' = budget - 1
    /\ ratchet_states' = [ratchet_states EXCEPT ![m] =
           InsertOrReplace(@, StorageKey(Get(get_current_username(m)), peer),
                           CorruptText)]
    /\ UNCHANGED <<session, messages, user_devices, mailbox, pc, local, nextKey,
                   active, limit, injected, directory, account, probe, processed, attempted, version>>

-----------------------------------------------------------------------------

Next ==
    \/ \E p \in Procs, m \in Machines, to \in Names, msg \in Payloads :
          StartSend(p, m, to, msg)
    \/ \E p \in Procs : SendCheckFirst(p)
    \/ \E p \in Procs : SendPrepare(p)
    \/ \E p \in Procs : SendSave(p)
    \/ \E p \in Procs : SendTransmit(p)
    \/ \E p \in Procs : SendHistory(p)
    \/ \E p \in Procs, m \in Machines : StartFetch(p, m)
    \/ \E p \in Procs, m \in Machines : FetchFails(p, m)
    \/ \E p \in Procs : RecvGuard(p)
    \/ \E p \in Procs : RecvInit(p)
    \/ \E p \in Procs : RecvSave(p)
    \/ \E p \in Procs : RecvHistory(p)
    \/ \E p \in Procs : RecvNext(p)
    \/ \E p \in Procs : Finish(p)
    \/ \E m \in Machines, peer \in Names : Corrupt(m, peer)

Spec == Init /\ [][Next]_vars

RaceSpec == InitRace /\ [][Next]_vars

SeqSpec == InitSeq /\ [][Next]_vars

LongSpec == InitLong /\ [][Next]_vars

BatchSpec == InitBatch /\ [][Next]_vars

-----------------------------------------------------------------------------
(* dood send against a relay that answers /account/search with any list *)

\* A device id that belongs to nobody
OtherDevice == 9

\* The entries an answer is made of: the entry of an account, and that entry
\* with a second device, without devices, with a device without id, without id
SearchEntries ==
    UNION {{DirectoryEntry(u),
            [DirectoryEntry(u) EXCEPT !.Devices = <<Some(DeviceId(u)), Some(OtherDevice)>>],
            [DirectoryEntry(u) EXCEPT !.Devices = <<>>],
            [DirectoryEntry(u) EXCEPT !.Devices = <<None>>],
            [DirectoryEntry(u) EXCEPT !.id = None]} : u \in Users}

InitSearch ==
    /\ session = [m \in Machines |-> {SessionRow(m)}]
    /\ account = [m \in Machines |-> {m}]
    /\ probe = NoProbe
    /\ directory \in SeqsUpTo(SearchEntries, MaxAnswer)
    /\ InitRest(MaxSearchOps, {"p1"}, MaxBatch, {})

SearchNext ==
    \/ \E p \in Procs, m \in Machines, to \in Names, msg \in Payloads :
          StartSend(p, m, to, msg)
    \/ \E p \in Procs : SendCheckFirst(p)
    \/ \E p \in Procs : SendPrepare(p)
    \/ \E p \in Procs : SendSave(p)
    \/ \E p \in Procs : SendTransmit(p)
    \/ \E p \in Procs : SendHistory(p)
    \/ \E p \in Procs : Finish(p)

SearchSpec == InitSearch /\ [][SearchNext]_vars

-----------------------------------------------------------------------------
(* dood fetch when accounts that are not modelled as machines write too, and
   the relay may leave the sender's name out of an envelope *)

\* The accounts that write to account to
Origins(to) == (Names \cup {UnknownSender}) \ {to}

\* The envelope of the first send_message of account from to account to
\* (lines 22-69), ek and fresh being the key pairs drawn on the way
FirstEnvelope(from, to, ek, fresh) ==
    LET x3dh_result == initiate_key_agreement(from, KeyBundle(to), ek)
        ratchet == new_sender(x3dh_result.rk, x3dh_result.alice_dhs,
                              x3dh_result.bob_public_key)
        encrypt_result == ratchet_encrypt(ratchet, "hi", fresh)
    IN Envelope(from,
                HeaderWithX3dh(encrypt_result.header, Some(X3dhMetadata(x3dh_result))),
                encrypt_result.cipher_text)

\* The relay accepts the first envelope of account from for account to
Deliver(from, to) ==
    /\ \A p \in Procs : pc[p] = "idle"
    /\ budget > 0
    /\ \A e \in mailbox[to] : e.username # from
    /\ budget' = budget - 1
    /\ mailbox' = [mailbox EXCEPT ![to] =
                      @ \cup {FirstEnvelope(from, to, nextKey, nextKey + 1)}]
    /\ nextKey' = nextKey + 2
    /\ UNCHANGED <<session, ratchet_states, messages, user_devices, pc, local,
                   faults, active, limit, injected, directory, account, probe, processed,
                   attempted, version>>

InitSender == InitWith(MaxSenderOps, {"p1"}, MaxBigBatch, {"no_username"})

SenderNext ==
    \/ \E to \in Users : \E from \in Origins(to) : Deliver(from, to)
    \/ \E p \in Procs, m \in Machines : StartFetch(p, m)
    \/ \E p \in Procs, m \in Machines : FetchFails(p, m)
    \/ \E p \in Procs : RecvGuard(p)
    \/ \E p \in Procs : RecvInit(p)
    \/ \E p \in Procs : RecvSave(p)
    \/ \E p \in Procs : RecvHistory(p)
    \/ \E p \in Procs : RecvNext(p)
    \/ \E p \in Procs : Finish(p)

SenderSpec == InitSender /\ [][SenderNext]_vars

-----------------------------------------------------------------------------
(* dood register, dood login, dood logout (main.rs 108-116 and 156-159, auth.rs),
   and dood send and dood fetch when nobody is logged in.  Each SQL statement
   is a step; the UPDATE of account.last_login that ends set_session changes
   no column of the model. *)

\* The names the relay has an account for: the two of the model, and those a
\* machine has registered or is registering
RelayAccounts ==
    Users \cup UNION {account[m] : m \in Machines}
          \cup {local[q].owner : q \in {q \in Procs : pc[q] = "save_account"}}

\* The local variables of an account command on username
AuthStart(op, m, username) ==
    [LocalIdle EXCEPT !.op = op, !.m = m, !.owner = username,
                      !.session_pre = session[m],
                      !.known = username \in account[m]]

\* register, lines 11-45: POST /account/register, which the relay refuses for
\* a name it has
StartRegister(p, m, username) ==
    /\ pc[p] = "idle" /\ p \in active /\ budget > 0
    /\ budget' = budget - 1
    /\ IF username \in RelayAccounts
       THEN Goto(p, "auth_done", [AuthStart("register", m, username)
                                    EXCEPT !.result = "error"])
       ELSE Goto(p, "save_account", AuthStart("register", m, username))
    /\ UNCHANGED <<session, ratchet_states, messages, user_devices, mailbox,
                   nextKey, faults, active, limit, injected, directory, account,
                   probe, processed, attempted, version>>

\* register, line 50: save_account, an INSERT into a table whose column
\* username is UNIQUE
SaveAccount(p) ==
    /\ pc[p] = "save_account"
    /\ LET l == local[p]
       IN IF l.owner \in account[l.m]
          THEN /\ Fail(p, "auth_done")
               /\ UNCHANGED account
          ELSE /\ account' = [account EXCEPT ![l.m] = @ \cup {l.owner}]
               /\ Goto(p, "session_delete", l)
    /\ UNCHANGED <<session, ratchet_states, messages, user_devices, mailbox,
                   nextKey, budget, faults, active, limit, injected, directory,
                   probe, processed, attempted, version>>

\* login, lines 61-76, with the test of lines 65-74 left out
StartLoginUnchecked(p, m, username) ==
    /\ pc[p] = "idle" /\ p \in active /\ budget > 0
    /\ budget' = budget - 1
    /\ Goto(p, "session_delete", AuthStart("login", m, username))
    /\ UNCHANGED <<session, ratchet_states, messages, user_devices, mailbox,
                   nextKey, faults, active, limit, injected, directory, account,
                   probe, processed, attempted, version>>

\* login, lines 61-76: SELECT COUNT(*) FROM account WHERE username = ?1
StartLogin(p, m, username) ==
    /\ pc[p] = "idle" /\ p \in active /\ budget > 0
    /\ budget' = budget - 1
    /\ IF username \in account[m]
       THEN Goto(p, "session_delete", AuthStart("login", m, username))
       ELSE Goto(p, "auth_done", [AuthStart("login", m, username)
                                    EXCEPT !.result = "error"])
    /\ UNCHANGED <<session, ratchet_states, messages, user_devices, mailbox,
                   nextKey, faults, active, limit, injected, directory, account,
                   probe, processed, attempted, version>>

\* DELETE FROM session WHERE id = 1
DeleteSession(table) == {r \in table : r.id # 1}

\* set_session, line 174
SessionDelete(p) ==
    /\ pc[p] = "session_delete"
    /\ session' = [session EXCEPT ![local[p].m] = DeleteSession(@)]
    /\ Goto(p, "session_insert", local[p])
    /\ UNCHANGED <<ratchet_states, messages, user_devices, mailbox, nextKey,
                   budget, faults, active, limit, injected, directory, account, probe,
                   processed, attempted, version>>

\* set_session, lines 177-180: INSERT INTO session (id, ...) VALUES (1, ...),
\* id being the PRIMARY KEY of the table (database.rs 68-69)
SessionInsert(p) ==
    /\ pc[p] = "session_insert"
    /\ LET l == local[p]
       IN IF \E r \in session[l.m] : r.id = 1
          THEN /\ Fail(p, "auth_done")
               /\ UNCHANGED session
          ELSE /\ session' = [session EXCEPT ![l.m] = @ \cup {SessionRow(l.owner)}]
               /\ Goto(p, "auth_done", [l EXCEPT !.result = "ok"])
    /\ UNCHANGED <<ratchet_states, messages, user_devices, mailbox, nextKey,
                   budget, faults, active, limit, injected, directory, account, probe,
                   processed, attempted, version>>

\* logout, lines 84-89
Logout(p, m) ==
    /\ pc[p] = "idle" /\ p \in active /\ budget > 0
    /\ budget' = budget - 1
    /\ session' = [session EXCEPT ![m] = DeleteSession(@)]
    /\ Goto(p, "auth_done", [AuthStart("logout", m, "") EXCEPT !.result = "ok"])
    /\ UNCHANGED <<ratchet_states, messages, user_devices, mailbox, nextKey,
                   faults, active, limit, injected, directory, account, probe, processed,
                   attempted, version>>

\* The local variables of a send or fetch that ensure_logged_in ends
NotLoggedIn(op, m) ==
    [LocalIdle EXCEPT !.op = op, !.m = m, !.session_pre = session[m],
                      !.pre = ratchet_states[m], !.hist = Len(messages[m]),
                      !.result = "error"]

\* main.rs 117-119 and 164-169: dood send when the table session is empty
SendNotLoggedIn(p, m) ==
    /\ pc[p] = "idle" /\ p \in active /\ budget > 0
    /\ ~is_logged_in(m)
    /\ budget' = budget - 1
    /\ Goto(p, "send_done", NotLoggedIn("send", m))
    /\ UNCHANGED <<session, ratchet_states, messages, user_devices, mailbox,
                   nextKey, faults, active, limit, injected, directory, account, probe,
                   processed, attempted, version>>

\* main.rs 122-124 and 164-169: dood fetch when the table session is empty
FetchNotLoggedIn(p, m) ==
    /\ pc[p] = "idle" /\ p \in active /\ budget > 0
    /\ ~is_logged_in(m)
    /\ budget' = budget - 1
    /\ Goto(p, "fetch_done", NotLoggedIn("fetch", m))
    /\ UNCHANGED <<session, ratchet_states, messages, user_devices, mailbox,
                   nextKey, faults, active, limit, injected, directory, account, probe,
                   processed, attempted, version>>

\* The steps of the account commands
AuthSteps ==
    \/ \E p \in Procs, m \in Machines, username \in Names :
          StartRegister(p, m, username)
    \/ \E p \in Procs : SaveAccount(p)
    \/ \E p \in Procs, m \in Machines, username \in Names :
          StartLogin(p, m, username)
    \/ \E p \in Procs : SessionDelete(p)
    \/ \E p \in Procs : SessionInsert(p)
    \/ \E p \in Procs, m \in Machines : Logout(p, m)
    \/ \E p \in Procs, m \in Machines : SendNotLoggedIn(p, m)
    \/ \E p \in Procs, m \in Machines : FetchNotLoggedIn(p, m)

InitAuth == InitWith(MaxAuthOps, {"p1"}, MaxBatch, {})

InitOwner == InitWith(MaxOwnerOps, Procs, MaxBatch, {})

AuthNext == Next \/ AuthSteps

\* Account commands between the sends and fetches of one process
AuthSpec == InitAuth /\ [][AuthNext]_vars

\* Account commands of one process during the sends and fetches of another
OwnerSpec == InitOwner /\ [][AuthNext]_vars

-----------------------------------------------------------------------------
(* The storage key as a function of two usernames.  auth::register takes the
   username as typed and sends it to the relay; nothing in this program
   restricts the characters of a username. *)

\* Usernames the probe draws from
KeyNames == {"a", "b", "c", "a:b", "b:c"}

KeyPairs == KeyNames \X KeyNames

\* A session record that parses
ProbeState == [CorruptText EXCEPT !.ns = 1]

\* Account a[1] is logged in on machine m; nothing stored, no command running
KeyInit ==
    /\ \E m \in Machines, a \in KeyPairs, b \in KeyPairs :
          /\ probe = [stage |-> "input", m |-> m, a |-> a, b |-> b, got |-> None]
          /\ session = [x \in Machines |-> IF x = m THEN {SessionRow(a[1])} ELSE {}]
          /\ account = [x \in Machines |-> IF x = m THEN {a[1], b[1]} ELSE {}]
    /\ directory = Directory
    /\ InitRest(0, {}, MaxBatch, {})

\* save_ratchet_state for peer a[2] while a[1] is logged in
KeySave ==
    /\ probe.stage = "input"
    /\ ratchet_states' = [ratchet_states EXCEPT
                             ![probe.m] = save_ratchet_state(probe.m, probe.a[2], ProbeState)]
    /\ probe' = [probe EXCEPT !.stage = "saved"]
    /\ UNCHANGED <<session, messages, user_devices, mailbox, pc, local, nextKey,
                   budget, faults, active, processed, attempted, version, limit,
                   injected, directory, account>>

\* auth::logout, then auth::login as b[1]: the database file stays
KeySwitch ==
    /\ probe.stage = "saved"
    /\ session' = [session EXCEPT ![probe.m] = {SessionRow(probe.b[1])}]
    /\ probe' = [probe EXCEPT !.stage = "switched"]
    /\ UNCHANGED <<ratchet_states, messages, user_devices, mailbox, pc, local,
                   nextKey, budget, faults, active, processed, attempted, version,
                   limit, injected, directory, account>>

\* load_ratchet_state for peer b[2] while b[1] is logged in
KeyLoad ==
    /\ probe.stage = "switched"
    /\ probe' = [probe EXCEPT !.stage = "loaded",
                              !.got = load_ratchet_state(probe.m, probe.b[2])]
    /\ UNCHANGED <<session, ratchet_states, messages, user_devices, mailbox, pc,
                   local, nextKey, budget, faults, active, processed, attempted,
                   version, limit, injected, directory, account>>

\* The record a later operation of b[1] for peer b[2] stores
LaterState == [CorruptText EXCEPT !.ns = 2]

\* save_ratchet_state for peer b[2] while b[1] is logged in
KeySaveOther ==
    /\ probe.stage = "switched"
    /\ ratchet_states' = [ratchet_states EXCEPT
                             ![probe.m] = save_ratchet_state(probe.m, probe.b[2], LaterState)]
    /\ probe' = [probe EXCEPT !.stage = "overwritten"]
    /\ UNCHANGED <<session, messages, user_devices, mailbox, pc, local, nextKey,
                   budget, faults, active, processed, attempted, version, limit,
                   injected, directory, account>>

KeyNext == KeySave \/ KeySwitch \/ KeyLoad \/ KeySaveOther

KeySpec == KeyInit /\ [][KeyNext]_vars

-----------------------------------------------------------------------------
(* Properties *)

\* The rows of table ratchet_states of machine m for the pair (owner, peer)
RowsOf(m, owner, peer) ==
    {r \in ratchet_states[m] : r.username = StorageKey(owner, peer)}

\* The session a table holds for (owner, peer), if any
SessionIn(table, owner, peer) == SelectState(table, StorageKey(owner, peer))

\* Positions of process_received_message after the guard of lines 262-266
PastGuard == {"init", "recv_save", "recv_history", "recv_done", "panicked"}

\* Positions of process_received_message after ratchet_decrypt returned
Decrypted == {"recv_save", "recv_history", "recv_done"}

Receiving(p) == local[p].op = "fetch" /\ pc[p] \in PastGuard

\* The envelope process p is working on
Env(p) == Get(local[p].env)

\* The session p's machine held for the sender when p began with the envelope
PreSession(p) == SessionIn(local[p].pre, local[p].owner, local[p].peer)

\* The session p's machine holds for the peer now
StoredSession(p) == SessionIn(ratchet_states[local[p].m], local[p].owner, local[p].peer)

\* process_received_message returned Ok(true) with the text that was sent
NewlyProcessed(p) ==
    /\ pc[p] = "recv_done"
    /\ local[p].result = "new"
    /\ local[p].plain = Env(p).ciphertext.pt

(* C6: in every reachable state the table ratchet_states of a machine holds at
   most one row for each (owner, peer) pair: a store for a pair that has a row
   replaces that row. *)
OneRecordPerPair ==
    \A m \in Machines, owner \in Users, peer \in Names :
        Cardinality(RowsOf(m, owner, peer)) <= 1

\* A session that was stored at least twice, and is one row
OneRecordPerPairWitness ==
    \E m \in Machines, peer \in Names :
        /\ version[m][peer] >= 2
        /\ Cardinality(RowsOf(m, m, peer)) = 1

(* C7: when process_received_message sets up a receiver session from the
   handshake of an envelope (no session was stored for the sender), the text it
   decrypts is the text send_message encrypted, whatever the payload. *)
RoundTrip ==
    \A p \in Procs :
        (Receiving(p) /\ local[p].established) =>
            /\ pc[p] # "panicked"
            /\ local[p].tag_ok
            /\ pc[p] \in Decrypted => local[p].plain = Env(p).ciphertext.pt

\* A responder that set up its session from a handshake and got "hello"
RoundTripWitness ==
    \E p \in Procs :
        /\ NewlyProcessed(p)
        /\ local[p].established
        /\ IsSome(Env(p).header.x3dh_init)
        /\ local[p].plain = "hello"

\* The envelope of p continues the receiving chain of the stored session, at
\* or after the next counter expected: nothing of the chain from it on arrived
OnReceivingChain(p) ==
    /\ IsSome(PreSession(p))
    /\ Get(PreSession(p)).dh_public_r = Env(p).header.public_key
    /\ Get(PreSession(p)).ckr = Env(p).ciphertext.mk[1]
    /\ Env(p).header.n >= Get(PreSession(p)).nr

\* The cache entries the gap in front of p's envelope leaves behind
GapEntries(p) ==
    {[public_key |-> Env(p).header.public_key, n |-> i,
      mk |-> MessageKey(Env(p).ciphertext.mk[1], i)] :
        i \in Get(PreSession(p)).nr .. (Env(p).header.n - 1)}

(* C8: an envelope that arrives after earlier counters of its chain were lost
   (its counter is at or past the next one expected) is decrypted to the text
   that was sent, with the key of its own counter; the keys of the counters
   skipped are in the stored cache afterwards, each under its own counter. *)
LostMessageTolerance ==
    /\ \A p \in Procs :
         (Receiving(p) /\ OnReceivingChain(p)) =>
            /\ pc[p] # "panicked"
            /\ pc[p] = "recv_done" =>
                 /\ NewlyProcessed(p)
                 /\ IsSome(StoredSession(p))
                 /\ GapEntries(p) \subseteq Get(StoredSession(p)).mk_skipped
    /\ \A p \in Procs :
         (local[p].op = "fetch" /\ pc[p] \in Decrypted /\ local[p].mk # <<>>
            /\ local[p].tag_ok) =>
            local[p].mk = MessageKey(Env(p).ciphertext.mk[1], Env(p).header.n)
    /\ \A m \in Machines : \A r \in ratchet_states[m] :
         \A s \in r.state_data.mk_skipped : s.mk[2] = s.n

\* Counter 0 was received, counter 1 was not, counter 2 is decrypted, and the
\* key of counter 1 is in the cache
LostMessageToleranceWitness ==
    \E p \in Procs :
        /\ NewlyProcessed(p)
        /\ OnReceivingChain(p)
        /\ Get(PreSession(p)).nr = 1
        /\ Env(p).header.n = 2
        /\ \E s \in Get(StoredSession(p)).mk_skipped : s.n = 1

\* The envelope of p is the first answer to a session the owner initiated and
\* has not yet received on: it has no handshake and its chain starts from the
\* root key of that session
ReplyToInitiator(p) ==
    /\ IsSome(PreSession(p))
    /\ Get(PreSession(p)).ckr = None
    /\ Env(p).header.x3dh_init = None
    /\ Len(Env(p).ciphertext.mk[1]) = Len(Get(PreSession(p)).rk) + 1
    /\ SubSeq(Env(p).ciphertext.mk[1], 1, Len(Get(PreSession(p)).rk))
           = Get(PreSession(p)).rk

(* C9: with no session on either side, the fetch of the first envelope of a
   session yields its text and stores a receiver session (a receiving chain on
   the sender's ratchet key, no sending chain); a send from a stored session
   puts no handshake in the header; and the fetch of the answer by the party
   that initiated the session yields the text of the answer. *)
EndToEnd ==
    \A p \in Procs :
        /\ (pc[p] = "recv_done" /\ local[p].result = "new" /\ local[p].established) =>
              /\ local[p].plain = Env(p).ciphertext.pt
              /\ IsSome(StoredSession(p))
              /\ Get(StoredSession(p)).cks = None
              /\ Get(StoredSession(p)).ckr # None
              /\ Get(StoredSession(p)).dh_public_r = Env(p).header.public_key
        /\ (pc[p] \in {"save", "transmit", "history"} /\ ~local[p].first) =>
              Env(p).header.x3dh_init = None
        /\ (Receiving(p) /\ ReplyToInitiator(p)) =>
              /\ pc[p] # "panicked"
              /\ pc[p] = "recv_done" => NewlyProcessed(p)

\* Alice has received "hello" as the answer to the session in which bob
\* received her "hi"
EndToEndWitness ==
    \E p \in Procs :
        /\ local[p].m = MachineOf("alice")
        /\ NewlyProcessed(p)
        /\ ReplyToInitiator(p)
        /\ local[p].plain = "hello"
        /\ \E i \in 1 .. Len(messages[MachineOf("bob")]) :
              messages[MachineOf("bob")][i] =
                  MessageRow("alice", "alice", "bob", "hi", FALSE)

\* The other envelopes of the sender and sending chain of p's envelope that
\* p's machine has decrypted
ChainProcessed(p) ==
    {f \in processed[local[p].m] :
        /\ f # Env(p)
        /\ f.username = Env(p).username
        /\ f.header.public_key = Env(p).header.public_key}

(* C1: when counter 2 of a sending chain was the first of the chain to be
   processed, counter 0 or 1 of that chain, delivered for the first time
   afterwards, is newly processed, with the text that was sent. *)
OutOfOrderDelivery ==
    \A p \in Procs :
        (/\ pc[p] = "recv_done" /\ ~local[p].seen
         /\ Env(p).header.n < 2
         /\ ChainProcessed(p) # {}
         /\ \A f \in ChainProcessed(p) : f.header.n = 2) =>
            NewlyProcessed(p)

(* C2: an envelope the machine has already decrypted and returned Ok(true) for
   is, whenever it is delivered again, dropped as stale:
   process_received_message returns Ok(false) and the table of sessions is as
   it was when the second delivery began. *)
DuplicateRejected ==
    \A p \in Procs :
        (Receiving(p) /\ local[p].dup /\ pc[p] \in {"recv_done", "panicked"}) =>
            /\ local[p].result = "stale"
            /\ ratchet_states[local[p].m] = local[p].pre

(* C3: the relay never holds two different envelopes of one sender that carry
   the same sending ratchet key and the same counter n. *)
NoMessageKeyReuse ==
    \A u \in Users : \A e1, e2 \in mailbox[u] :
        (/\ e1.username = e2.username
         /\ e1.header.public_key = e2.header.public_key
         /\ e1.header.n = e2.header.n) => e1 = e2

(* C4: no command stores a session record computed from a load that a store of
   another command has superseded in the meantime: at every write to
   ratchet_states, the record has not been written since the command loaded it. *)
NoLostUpdate ==
    [][\A p \in Procs :
         (/\ pc[p] \in {"save", "recv_save"}
          /\ pc'[p] \in {"transmit", "recv_history"}) =>
            local[p].ver = version[local[p].m][local[p].peer]]_vars

\* The envelopes with a handshake that owner has got through to peer
Handshakes(owner, peer) ==
    {e \in mailbox[peer] : e.username = owner /\ IsSome(e.header.x3dh_init)}

(* C5: the relay never holds two envelopes of one owner for one peer whose
   handshakes come from two different establishments (two different initiator
   key pairs), of which the owner's stored record continues at most one. *)
SessionUniqueness ==
    \A owner \in Users, peer \in Users :
        \A e1, e2 \in Handshakes(owner, peer) :
            e1.header.public_key = e2.header.public_key

(* C11: a fetch never ends with envelopes of its batch left unprocessed: when
   the processing of one envelope fails, whatever the failure, the process goes
   on to the next envelope of the batch. *)
BatchIsolation ==
    [][\A p \in Procs :
         (local[p].op = "fetch" /\ pc[p] # "idle" /\ pc'[p] = "idle") =>
            Len(local[p].batch) <= 1]_vars

\* When p began with the peer, the row of the peer was there and did not parse
CorruptAtStart(p) ==
    /\ IsSome(PreSession(p))
    /\ ~Parses(Get(PreSession(p)))

(* C12: a send or a receive that finds the stored record of the peer
   unparseable ends with an error: it does not go on to establish a session and
   encrypt or decrypt, and the stored row is not overwritten. *)
CorruptStateIsAnError ==
    \A p \in Procs :
        CorruptAtStart(p) =>
            /\ pc[p] \notin {"save", "transmit", "history", "recv_save",
                             "recv_history", "panicked"}
            /\ pc[p] \in {"send_done", "recv_done"} =>
                  /\ local[p].result = "error"
                  /\ ratchet_states[local[p].m] = local[p].pre

\* The relay never accepted the counter in front of p's envelope on its
\* sending chain: the send that drew it failed after line 48
PreviousCounterLost(p) ==
    /\ Env(p).wire = "ok"
    /\ Env(p).header.n > 0
    /\ ~\E e \in mailbox[local[p].owner] :
          /\ e.username = Env(p).username
          /\ e.header.public_key = Env(p).header.public_key
          /\ e.header.n = Env(p).header.n - 1

(* C13: the envelope of a send that follows a send whose transmission failed
   (also the first send of a session) is, on its first delivery and with no
   later counter of its chain received before it, decrypted by the receiver to
   the text that was sent. *)
ResendDecrypts ==
    \A p \in Procs :
        (/\ pc[p] = "recv_done" /\ ~local[p].seen
         /\ PreviousCounterLost(p)
         /\ \A f \in ChainProcessed(p) : f.header.n < Env(p).header.n) =>
            NewlyProcessed(p)

\* The envelope is counter 0 of the chain new_sender starts from the X3DH
\* secret: the first envelope of a session, sent by the party that created it
FirstOfSession(e) ==
    /\ e.header.n = 0
    /\ Len(e.ciphertext.mk[1]) = 2

(* C14: the envelope of a send carries x3dh_init exactly when the send found
   no session for the peer and created one; of the envelopes the relay holds,
   the first of each session carries the handshake and no other does. *)
HandshakePresence ==
    /\ \A p \in Procs :
          pc[p] \in {"save", "transmit", "history"} =>
              (IsSome(Env(p).header.x3dh_init) <=> local[p].first)
    /\ \A u \in Users : \A e \in mailbox[u] :
          IsSome(e.header.x3dh_init) <=> FirstOfSession(e)

\* A second send to the peer is on its way without a handshake, the first
\* envelope of the session is at the relay with one
HandshakePresenceWitness ==
    \E p \in Procs :
        /\ pc[p] = "transmit"
        /\ ~local[p].first
        /\ Env(p).header.x3dh_init = None
        /\ \E e \in mailbox[local[p].peer] :
              /\ e.username = local[p].owner
              /\ IsSome(e.header.x3dh_init)
              /\ e.header.public_key = Env(p).header.public_key

\* p's envelope decodes, has no handshake, and no row was stored for its
\* sender when p began with it
WithoutSessionOrHandshake(p) ==
    /\ Receiving(p)
    /\ Env(p).wire = "ok"
    /\ PreSession(p) = None
    /\ Env(p).header.x3dh_init = None

(* C15: an envelope without handshake from a sender for whom no record is
   stored is rejected with an error: ratchet_decrypt, save_ratchet_state and
   save_message are not reached, no record exists for the sender afterwards,
   the history is as it was, and the result is not 'newly processed'. *)
MissingHandshakeRejected ==
    \A p \in Procs :
        WithoutSessionOrHandshake(p) =>
            /\ pc[p] \in {"init", "recv_done"}
            /\ pc[p] = "recv_done" =>
                  /\ local[p].result = "error"
                  /\ StoredSession(p) = None
                  /\ Len(messages[local[p].m]) = local[p].hist

\* Counter 1 of a new session reached bob before counter 0 and was rejected
MissingHandshakeRejectedWitness ==
    \E p \in Procs :
        /\ WithoutSessionOrHandshake(p)
        /\ pc[p] = "recv_done"
        /\ local[p].result = "error"
        /\ Env(p).header.n = 1


\* C16: the storage key of two different (owner, peer) pairs is different, so
\* a record saved for one pair is not what a load for another pair returns
StorageKeyInjective ==
    (probe.stage = "loaded" /\ probe.a # probe.b) => probe.got = None

\* The envelope p works on came with the current ratchet key of the sender's
\* stored session and a counter below nr
BelowReceivingCounter(p) ==
    /\ Receiving(p)
    /\ Env(p).wire = "ok"
    /\ IsSome(PreSession(p))
    /\ Parses(Get(PreSession(p)))
    /\ Get(PreSession(p)).dh_public_r = Env(p).header.public_key
    /\ Env(p).header.n < Get(PreSession(p)).nr

(* C17: an envelope whose ratchet key is the current remote key of the stored
   session and whose counter is below nr is discarded at the guard: the result
   is "not newly processed" and no error, and the table ratchet_states and the
   message history are what they were. *)
StaleDiscarded ==
    \A p \in Procs :
        BelowReceivingCounter(p) =>
            /\ pc[p] = "recv_done"
            /\ local[p].result = "stale"
            /\ ratchet_states[local[p].m] = local[p].pre
            /\ Len(messages[local[p].m]) = local[p].hist

\* An envelope of the current chain with a counter below nr was discarded
StaleDiscardedWitness ==
    \E p \in Procs :
        /\ BelowReceivingCounter(p)
        /\ pc[p] = "recv_done"
        /\ local[p].result = "stale"

\* The entries of the skipped-key cache, as stored when p began with the
\* envelope, that hold the key of this envelope
CachedFor(p) ==
    IF IsSome(PreSession(p)) /\ Parses(Get(PreSession(p)))
    THEN {skipped \in Get(PreSession(p)).mk_skipped :
             /\ skipped.public_key = Env(p).header.public_key
             /\ skipped.n = Env(p).header.n
             /\ skipped.mk = Env(p).ciphertext.mk}
    ELSE {}

(* C18: an envelope whose (ratchet key, counter) has an entry in the stored
   cache of skipped keys is decrypted with that key and newly processed; the
   entry is gone from the stored cache afterwards and nr is what it was. *)
SkipHitDecrypts ==
    \A p \in Procs :
        (/\ Receiving(p) /\ Env(p).wire = "ok"
         /\ CachedFor(p) # {}
         /\ pc[p] \in {"recv_done", "panicked"}) =>
            /\ NewlyProcessed(p)
            /\ IsSome(StoredSession(p))
            /\ CachedFor(p) \cap Get(StoredSession(p)).mk_skipped = {}
            /\ Get(StoredSession(p)).nr = Get(PreSession(p)).nr

\* send_message of p has encrypted and is at the POST or past it
AtOrPastTransmit(p) ==
    /\ local[p].op = "send"
    /\ pc[p] \in {"transmit", "history", "send_done"}
    /\ IsSome(local[p].st)

\* The POST of p's send_message failed
TransmissionFailed(p) ==
    AtOrPastTransmit(p) /\ pc[p] = "send_done" /\ local[p].result = "error"

\* The sending counter p's send_message started from: 0 in a new session or a
\* new sending chain, the stored ns otherwise
CounterBefore(p) ==
    IF local[p].first \/ NeedsSendingChain(Get(PreSession(p)))
    THEN 0 ELSE Get(PreSession(p)).ns

(* C19: from the moment send_message posts the envelope, the record stored for
   the peer is the state ratchet_encrypt returned, one sending counter past the
   counter of the envelope; when the POST fails the command ends with an error,
   the envelope is not on the relay, and the stored record is that advanced
   state all the same. *)
PersistBeforeTransmit ==
    \A p \in Procs :
        /\ AtOrPastTransmit(p) =>
              /\ StoredSession(p) = local[p].st
              /\ Get(StoredSession(p)).ns = Env(p).header.n + 1
              /\ Env(p).header.n = CounterBefore(p)
        /\ TransmissionFailed(p) =>
              /\ Env(p) \notin mailbox[local[p].peer]
              /\ Len(messages[local[p].m]) = local[p].hist

\* A send inside an existing session whose POST failed
PersistBeforeTransmitWitness ==
    \E p \in Procs :
        /\ TransmissionFailed(p)
        /\ ~local[p].first
        /\ Get(StoredSession(p)).ns = CounterBefore(p) + 1
        /\ CounterBefore(p) > 0

\* The relay holds the envelope of p's send_message: the POST was accepted
Accepted(p) ==
    /\ IsSome(local[p].env)
    /\ Env(p) \in mailbox[local[p].peer]

\* The row send_message hands to save_message
OutgoingRow(p) ==
    MessageRow(local[p].peer, local[p].owner, local[p].peer, local[p].msg, TRUE)

(* C20: a send_message that has returned has appended its text to the outgoing
   history exactly when the relay accepted the envelope: one row, the text as
   given, after an accepted POST; no row after a failure of the search, of the
   establishment or of the POST.  Until it returns from the POST it has
   appended nothing. *)
OutgoingHistory ==
    \A p \in Procs :
        local[p].op = "send" =>
            LET history == messages[local[p].m]
            IN /\ pc[p] \in {"check_first", "prepare", "save", "transmit", "history"} =>
                     Len(history) = local[p].hist
               /\ (pc[p] = "send_done" /\ Accepted(p)) =>
                     /\ local[p].result = "ok"
                     /\ Len(history) = local[p].hist + 1
                     /\ history[Len(history)] = OutgoingRow(p)
               /\ (pc[p] = "send_done" /\ ~Accepted(p)) =>
                     /\ local[p].result = "error"
                     /\ Len(history) = local[p].hist

\* After a send that was recorded in the history, a send whose POST failed
\* has returned
OutgoingHistoryWitness ==
    \E p \in Procs :
        /\ TransmissionFailed(p)
        /\ ~Accepted(p)
        /\ local[p].hist = 1
        /\ messages[local[p].m][1].is_outgoing

\* process_received_message of p is at save_message or has returned Ok(true)
AtOrPastSurface(p) ==
    /\ local[p].op = "fetch"
    /\ \/ pc[p] = "recv_history"
       \/ pc[p] = "recv_done" /\ local[p].result = "new"

(* C21: when process_received_message writes the text to the history, and
   when it has returned Ok(true), the record stored for the sender is the
   state ratchet_decrypt left, written by this call (one write since the state
   was loaded); the text is in the history only after that. *)
PersistBeforeSurface ==
    \A p \in Procs :
        /\ AtOrPastSurface(p) =>
              /\ StoredSession(p) = local[p].st
              /\ version[local[p].m][local[p].peer] = local[p].ver + 1
        /\ (local[p].op = "fetch" /\ pc[p] \in {"init", "recv_save", "recv_history"}) =>
              Len(messages[local[p].m]) = local[p].hist

\* An envelope was newly processed and its text is the last row of the history
PersistBeforeSurfaceWitness ==
    \E p \in Procs :
        /\ AtOrPastSurface(p) /\ pc[p] = "recv_done"
        /\ StoredSession(p) # PreSession(p)
        /\ Len(messages[local[p].m]) = local[p].hist + 1
        /\ messages[local[p].m][local[p].hist + 1].content = local[p].plain

\* The entries of the relay's answer that carry exactly this username and
\* advertise at least one device
ExactEntries(users, username) ==
    {i \in 1..Len(users) : users[i].username = username /\ users[i].Devices # <<>>}

\* The row search_user caches for entry user
MappingOf(user) ==
    [username |-> user.username, user_id |-> Get(user.id),
     device_id |-> Get(user.Devices[1])]

(* C22: a send_message leaves search_user with a result only when the answer
   of the relay holds an entry with exactly the name asked for and at least
   one device, and then the mapping cached is that of such an entry: its id
   and the id of its first device.  Without such an entry the command ends
   with an error.  A command that ends at the search has cached no mapping,
   changed no stored session and posted nothing. *)
PeerResolution ==
    [][\A p \in Procs :
          (pc[p] = "idle" /\ local'[p].op = "send") =>
             LET m == local'[p].m
                 to == local'[p].peer
             IN /\ pc'[p] = "check_first" =>
                      \E i \in ExactEntries(directory, to) :
                         /\ IsSome(directory[i].id)
                         /\ IsSome(directory[i].Devices[1])
                         /\ MappingOf(directory[i]) \in user_devices'[m]
                         /\ \A r \in user_devices'[m] :
                               r.username = to => r = MappingOf(directory[i])
                /\ ExactEntries(directory, to) = {} => pc'[p] = "send_done"
                /\ pc'[p] = "send_done" =>
                      /\ local'[p].result = "error"
                      /\ user_devices' = user_devices
                      /\ ratchet_states' = ratchet_states
                      /\ mailbox' = mailbox]_vars

\* A send ended at the search: the answer was not empty, the name is that of
\* an account, and no entry of the answer has that name and a device
PeerResolutionWitness ==
    \E p \in Procs :
        /\ local[p].op = "send" /\ pc[p] = "send_done"
        /\ local[p].result = "error"
        /\ local[p].peer \in Users
        /\ directory # <<>>
        /\ ExactEntries(directory, local[p].peer) = {}
        /\ faults = MaxFaults

\* The envelope p works on carries a handshake, and a readable record was
\* stored for its sender when p began with it
HandshakeOnExistingSession(p) ==
    /\ Receiving(p)
    /\ Env(p).wire = "ok"
    /\ IsSome(Env(p).header.x3dh_init)
    /\ IsSome(PreSession(p))
    /\ Parses(Get(PreSession(p)))

\* What ratchet_decrypt leaves of the record stored when p began
DecryptedFromStored(p) ==
    ratchet_decrypt(Get(PreSession(p)), Env(p).header, Env(p).ciphertext,
                    Env(p).header.ad).state

(* C24: for an envelope with a handshake from a sender whose record exists,
   get_or_initialize_receiver_ratchet returns the stored record: no session is
   established from the handshake, and the state process_received_message goes
   on with and stores is what ratchet_decrypt made of the stored record. *)
EstablishmentIdempotent ==
    \A p \in Procs :
        HandshakeOnExistingSession(p) =>
            /\ pc[p] = "init" =>
                  get_or_initialize_receiver_ratchet(local[p].m, local[p].peer,
                                                     Env(p).header) = PreSession(p)
            /\ pc[p] \in {"recv_save", "recv_history", "panicked"} =>
                  ~local[p].established
            /\ pc[p] \in {"recv_save", "recv_history"} =>
                  local[p].st = Some(DecryptedFromStored(p))
            /\ pc[p] = "recv_history" =>
                  StoredSession(p) = Some(DecryptedFromStored(p))

\* An envelope with a handshake, not stale, went past
\* get_or_initialize_receiver_ratchet while a record of its sender was stored
EstablishmentIdempotentWitness ==
    \E p \in Procs :
        /\ HandshakeOnExistingSession(p)
        /\ pc[p] \in {"recv_save", "panicked"}

(* C25: an operation for one (owner, peer) pair leaves the stored record of
   every other pair as it was: after account b[1] has stored a record for peer
   b[2], the record account a[1] stored for peer a[2] is still the one it
   stored. *)
PeerIndependence ==
    (probe.stage = "overwritten" /\ probe.a # probe.b) =>
        SelectState(ratchet_states[probe.m], StorageKey(probe.a[1], probe.a[2]))
            = Some(ProbeState)

\* fetch_messages of p got an empty answer, or has dealt with an envelope and
\* every envelope of the answer so far was dropped as stale
NothingNewSoFar(p) ==
    /\ local[p].op = "fetch"
    /\ local[p].only_stale
    /\ \/ pc[p] = "fetch_done" /\ local[p].result = "ok"
       \/ pc[p] = "recv_done"

(* C26: a fetch whose answer is empty, or whose envelopes were all dropped as
   stale, has counted no new message, and the table ratchet_states and the
   message history are what they were when it began. *)
IdleFetch ==
    \A p \in Procs :
        NothingNewSoFar(p) =>
            /\ local[p].new_count = 0
            /\ ratchet_states[local[p].m] = local[p].fetch_pre
            /\ Len(messages[local[p].m]) = local[p].fetch_hist

\* The last envelope of an answer was dropped as stale, like every envelope of
\* that answer before it
IdleFetchWitness ==
    \E p \in Procs :
        /\ NothingNewSoFar(p) /\ pc[p] = "recv_done"
        /\ Len(local[p].batch) = 1
        /\ local[p].seen
        /\ local[p].fetch_hist > 0

\* The envelopes of the account that sent p's envelope which this machine has
\* dealt with before
EarlierOfSameSender(p) ==
    {f \in attempted[local[p].m] : f.username = Env(p).username}

(* C27: an envelope is dealt with against a stored record only if that record
   comes from an envelope of the same sender: when process_received_message
   finds a record for the first envelope of an account, on a machine that
   began without records, an envelope of another account has been processed
   against the same record. *)
SenderSeparation ==
    \A p \in Procs :
        (/\ Receiving(p)
         /\ Decode(Env(p)) = "ok"
         /\ ~local[p].seen
         /\ EarlierOfSameSender(p) \ {Env(p)} = {}) =>
            PreSession(p) = None

-----------------------------------------------------------------------------
(* C28.  Owner consistency: a send or receive that has stored the session
   record stored it under the user that was logged in when the command
   loaded it, also when another process registers, logs in or logs out
   between that load and the store. *)

\* Process p has just stored the record of its command
JustStored(p) == pc[p] \in {"transmit", "recv_history"}

OwnerConsistency ==
    \A p \in Procs :
        JustStored(p) => local[p].stored_as = local[p].loaded_as

-----------------------------------------------------------------------------
(* C29.  Login gating, for commands run one at a time: table session never
   holds more than one row, whatever was registered, logged in or logged out;
   a login for a username without a row in table account has ended with an
   error and left table session as it was; a send or fetch is at work only
   on a machine with a current session, and one started without has ended
   with an error and left table ratchet_states as it was. *)

\* Process p is inside send_message or fetch_messages
AtWork(p) ==
    pc[p] \in {"check_first", "prepare", "save", "transmit", "history",
               "guard", "init", "recv_save", "recv_history", "recv_done"}

\* The command of process p is a login for a username without local account
UnknownLogin(p) == local[p].op = "login" /\ ~local[p].known

\* The command of process p is a send or fetch started without current session
StartedLoggedOut(p) ==
    local[p].op \in {"send", "fetch"} /\ local[p].session_pre = {}

LoginGating ==
    /\ \A m \in Machines : Cardinality(session[m]) <= 1
    /\ \A p \in Procs :
          /\ UnknownLogin(p) =>
                /\ pc[p] = "auth_done"
                /\ local[p].result = "error"
                /\ session[local[p].m] = local[p].session_pre
          /\ AtWork(p) => is_logged_in(local[p].m)
          /\ StartedLoggedOut(p) =>
                /\ pc[p] \in {"send_done", "fetch_done"}
                /\ local[p].result = "error"
                /\ ratchet_states[local[p].m] = local[p].pre

\* After a logout on a machine that holds a session record, a send has been
\* turned away there
LoginGatingWitness ==
    \E p \in Procs :
        /\ pc[p] = "send_done"
        /\ StartedLoggedOut(p)
        /\ ratchet_states[local[p].m] # {}

=============================================================================
